---- MODULE Spec2Model ----
(***************************************************************************)
(* Model of mmdet3d/models/backbones/frustum_feature_net.py: the FFN       *)
(* backbone.  It covers construction (__init__ and get_model), the helper  *)
(* filter_pretrained_dict, and forward with preprocess.                    *)
(*                                                                         *)
(* A state dictionary is a function from keys to tensors.  A key is a      *)
(* sequence of name fragments, so that the substring test                  *)
(* `"aux_classifier" not in key` is a real search.  A tensor of a state    *)
(* dictionary is a record holding its shape and the origin of its data.    *)
(* An image batch is a tensor object on a heap, referred to by its index,  *)
(* so that aliasing between the caller's batch and the tensor handed to    *)
(* the network is visible.                                                 *)
(***************************************************************************)
EXTENDS Integers, Sequences, FiniteSets, TLC

VARIABLES phase, args, pretrained_path, pretrained, norm_mean, model, weights,
          err, heap, given, calls, lastCall, filt

vars == <<phase, args, pretrained_path, pretrained, norm_mean, model, weights,
          err, heap, given, calls, lastCall, filt>>

self == <<pretrained_path, pretrained, norm_mean, model, weights>>

(* ------------------------------ bounds --------------------------------- *)
MaxClasses == 2
NumElems == 2
NumTensors == 1
MaxCalls == 2

(* ------------------------------ values --------------------------------- *)
None == "None"
NaN == "nan"
Zero == "0.0"
Values == {NaN, Zero, "1.0"}
Batches == [1..NumElems -> Values]

ConstructorNames == {"ResNet50", "ResNet101", "ResNet18", "resnet50"}
Paths == {None, "ckpt.pth"}

(* ------------------------- state dictionaries -------------------------- *)
AUX == <<"aux_", "classifier">>
AuxW == <<"aux_", "classifier", ".0", ".weight">>
AuxModuleW == <<"module.", "aux_", "classifier", ".4", ".weight">>
ClsW == <<"classifier", ".4", ".weight">>
ClsB == <<"classifier", ".4", ".bias">>
Conv1W == <<"backbone.", "conv1", ".weight">>
Keys == {AuxW, AuxModuleW, ClsW, ClsB, Conv1W}

Tensors(origin) == [shape : {<<n>> : n \in 1..MaxClasses}, data : {origin}]
StateDicts(origin) == UNION {[K -> Tensors(origin)] : K \in SUBSET Keys}

EmptyDict == [k \in {} |-> None]

\* key `k` starts with the fragments `pat`
StartsWith(k, pat) ==
  /\ Len(pat) =< Len(k)
  /\ SubSeq(k, 1, Len(pat)) = pat

\* Python `pat in k` on strings
Contains(k, pat) ==
  \E i \in 1..(Len(k) - Len(pat) + 1) : SubSeq(k, i, i + Len(pat) - 1) = pat

Restrict(d, K) == [k \in K |-> d[k]]

\* dict.pop(k, None), which never raises
PopDefault(d, k) == FALSE
\* dict.pop(k) with no default raises KeyError when k is absent
PopRaises(d, k) == k \notin DOMAIN d

\* dict.get(k) in place of dict.pop(k): the entry stays
PopKeep(d, k) == d
\* the dictionary after dict.pop(k)
Pop(d, k) == Restrict(d, DOMAIN d \ {k})

\* dict.update
Update(a, b) ==
  [k \in DOMAIN a \cup DOMAIN b |-> IF k \in DOMAIN b THEN b[k] ELSE a[k]]

Raise(e) == [err |-> e, dict |-> EmptyDict]
Return(d) == [err |-> "none", dict |-> d]

\* the comprehension with key.startswith("aux_classifier") as its test
WithoutAuxPrefixed(d) == Restrict(d, {k \in DOMAIN d : ~StartsWith(k, AUX)})
\* {key: value for key, value in d.items() if "aux_classifier" not in key}
WithoutAux(d) == Restrict(d, {k \in DOMAIN d : ~Contains(k, AUX)})

filter_pretrained_dict(model_dict, pretrained_dict) ==
  LET pd1 == IF AuxW \in DOMAIN pretrained_dict /\ AuxW \notin DOMAIN model_dict
             THEN WithoutAux(pretrained_dict)
             ELSE pretrained_dict
  IN  IF ClsW \notin DOMAIN model_dict THEN Raise("KeyError")
      ELSE IF ClsW \notin DOMAIN pd1 THEN Raise("KeyError")
      ELSE IF model_dict[ClsW].shape[1] # pd1[ClsW].shape[1]
           THEN IF PopRaises(Pop(pd1, ClsW), ClsB) THEN Raise("KeyError")
                ELSE Return(Pop(Pop(pd1, ClsW), ClsB))
           ELSE Return(pd1)

(* ----------------------------- construction ---------------------------- *)
Unsupported == "NotImplementedError"

\* the dispatch with its last branch taken as the default constructor
ConstructorLax(constructor_name) ==
  IF constructor_name = "ResNet101" THEN "deeplabv3_resnet101"
  ELSE "deeplabv3_resnet50"
Constructor(constructor_name) ==
  IF constructor_name = "ResNet50" THEN "deeplabv3_resnet50"
  ELSE IF constructor_name = "ResNet101" THEN "deeplabv3_resnet101"
  ELSE Unsupported

\* the segmentation model the constructor returns: its submodules, each named
\* by its path from the model's root
FullModel(constructor) ==
  [name |-> constructor,
   backbone |-> [conv1 |-> <<"backbone.", "conv1">>,
                 bn1 |-> <<"backbone.", "bn1">>,
                 relu |-> <<"backbone.", "relu">>,
                 maxpool |-> <<"backbone.", "maxpool">>,
                 layer1 |-> <<"backbone.", "layer1">>,
                 layer2 |-> <<"backbone.", "layer2">>,
                 layer3 |-> <<"backbone.", "layer3">>,
                 layer4 |-> <<"backbone.", "layer4">>],
   classifier |-> <<"classifier">>]

\* the state dictionaries a freshly constructed segmentation model can have
FreshModelDicts ==
  {d \in StateDicts("init") :
     /\ {ClsW, ClsB, Conv1W} \subseteq DOMAIN d
     /\ AuxModuleW \notin DOMAIN d
     /\ d[ClsW].shape = d[ClsB].shape}

\* what torch.load finds at the path: a state dictionary, or nothing it can read
Unreadable == [readable |-> FALSE, dict |-> EmptyDict]
Files == {Unreadable} \cup {[readable |-> TRUE, dict |-> d] : d \in StateDicts("ckpt")}

\* model.load_state_dict(state_dict), strict: TRUE when it raises
LoadRaises(fresh, state_dict) ==
  \/ DOMAIN state_dict # DOMAIN fresh
  \/ \E k \in DOMAIN fresh : state_dict[k].shape # fresh[k].shape

\* return model.backbone, every stage kept
WholeBackbone(m) ==
  <<m.backbone.conv1, m.backbone.bn1, m.backbone.relu, m.backbone.maxpool,
    m.backbone.layer1, m.backbone.layer2, m.backbone.layer3, m.backbone.layer4>>
\* nn.Sequential(conv1, bn1, relu, maxpool, layer1)
Truncate(m) ==
  <<m.backbone.conv1, m.backbone.bn1, m.backbone.relu, m.backbone.maxpool,
    m.backbone.layer1>>

\* the entries of state dictionary d that belong to the modules of net
ParamsOf(net, d) ==
  Restrict(d, {k \in DOMAIN d : \E i \in DOMAIN net : StartsWith(k, net[i])})

Built(m, d) == [err |-> "none", model |-> Truncate(m),
                weights |-> ParamsOf(Truncate(m), d)]
Failed(e) == [err |-> e, model |-> <<>>, weights |-> EmptyDict]

get_model(constructor, path, fresh, file) ==
  LET m == FullModel(constructor)
  IN  IF path # None
      THEN IF ~file.readable THEN Failed("LoadError")
           ELSE LET f == filter_pretrained_dict(fresh, file.dict)
                IN  IF f.err # "none" THEN Failed(f.err)
                    ELSE IF LoadRaises(fresh, Update(fresh, f.dict))
                         THEN Failed("RuntimeError")
                         ELSE Built(m, Update(fresh, f.dict))
      ELSE Built(m, fresh)

NormMean == <<"0.485", "0.456", "0.406">>

FFN_init(constructor_name, path, fresh, file) ==
  /\ phase = "new"
  /\ args' = [constructor_name |-> constructor_name, pretrained_path |-> path]
  /\ pretrained_path' = path
  /\ pretrained' = (path # None)
  /\ norm_mean' = IF path # None THEN NormMean ELSE <<>>
  /\ LET r == IF Constructor(constructor_name) = Unsupported
              THEN Failed(Unsupported)
              ELSE get_model(Constructor(constructor_name), path, fresh, file)
     IN  /\ err' = r.err
         /\ model' = r.model
         /\ weights' = r.weights
         /\ phase' = IF r.err = "none" THEN "ready" ELSE "failed"
  /\ UNCHANGED <<heap, given, calls, lastCall, filt>>

\* FFN(constructor_name, pretrained_path), with what the model zoo and the
\* file system hold at that moment
Construct ==
  /\ phase = "new"
  /\ \E n \in ConstructorNames, p \in Paths, fresh \in FreshModelDicts, file \in Files :
       FFN_init(n, p, fresh, file)

(* ------------------------------- forward -------------------------------- *)
\* the caller makes an image batch
NewBatch(b) ==
  /\ phase = "ready"
  /\ Len(heap) < NumTensors
  /\ heap' = Append(heap, b)
  /\ given' = Append(given, b)
  /\ calls' = Append(calls, 0)
  /\ UNCHANGED <<phase, args, pretrained_path, pretrained, norm_mean, model,
                 weights, err, lastCall, filt>>

isnan(t) == [p \in DOMAIN t |-> t[p] = NaN]

\* x[:] = 0
FillAll(t, mask) == [p \in DOMAIN t |-> Zero]
\* x[mask] = 0
MaskedFill(t, mask) == [p \in DOMAIN t |-> IF mask[p] THEN Zero ELSE t[p]]

\* x = images.clone() in place of x = images
preprocess_clone(pre, h, images) ==
  IF pre
  THEN [heap |-> Append(h, MaskedFill(h[images], isnan(h[images]))),
        x |-> Len(h) + 1, mask |-> isnan(h[images])]
  ELSE [heap |-> h, x |-> images, mask |-> <<>>]

\* the mask applied whether or not pretrained weights were given
preprocess_always(pre, h, images) ==
  [heap |-> [h EXCEPT ![images] = MaskedFill(h[images], isnan(h[images]))],
   x |-> images, mask |-> isnan(h[images])]

preprocess(pre, h, images) ==
  LET x == images
  IN  IF pre
      THEN LET mask == isnan(h[x])
           IN  [heap |-> [h EXCEPT ![x] = MaskedFill(h[x], mask)],
                x |-> x, mask |-> mask]
      ELSE [heap |-> h, x |-> x, mask |-> <<>>]

NoCall == [images |-> 0, before |-> <<>>, mask |-> <<>>, x |-> 0, fed |-> <<>>]

\* forward up to the call of the network; self.model(x) reads x and the weights
ForwardCall(images) ==
  /\ phase = "ready"
  /\ images \in 1..Len(calls)
  /\ calls[images] < MaxCalls
  /\ LET r == preprocess(pretrained, heap, images)
     IN  /\ heap' = r.heap
         /\ lastCall' = [images |-> images, before |-> heap[images],
                         mask |-> r.mask, x |-> r.x, fed |-> r.heap[r.x]]
  /\ calls' = [calls EXCEPT ![images] = @ + 1]
  /\ UNCHANGED <<phase, args, err, given, filt>>

\* a forward that drops the last stage of the network on each call
ForwardRebuilds(images) ==
  /\ ForwardCall(images)
  /\ model' = SubSeq(model, 1, Len(model) - 1)
  /\ UNCHANGED <<pretrained_path, pretrained, norm_mean, weights>>

Forward(images) ==
  /\ ForwardCall(images)
  /\ UNCHANGED self

(* ---------------------------- specifications ---------------------------- *)
NoFilter == [pc |-> "idle", model_dict |-> EmptyDict,
             pretrained_dict |-> EmptyDict, ret |-> Raise("none")]

Init ==
  /\ phase = "new"
  /\ args = [constructor_name |-> None, pretrained_path |-> None]
  /\ pretrained_path = None
  /\ pretrained = FALSE
  /\ norm_mean = <<>>
  /\ model = <<>>
  /\ weights = EmptyDict
  /\ err = "none"
  /\ heap = <<>>
  /\ given = <<>>
  /\ calls = <<>>
  /\ lastCall = NoCall
  /\ filt = NoFilter

Next ==
  \/ Construct
  \/ \E b \in Batches : NewBatch(b)
  \/ \E t \in 1..NumTensors : Forward(t)

Spec == Init /\ [][Next]_vars

\* filter_pretrained_dict called directly on a constructed module
FilterCall ==
  /\ filt.pc = "call"
  /\ filt' = [filt EXCEPT !.pc = "done",
                !.ret = filter_pretrained_dict(filt.model_dict, filt.pretrained_dict)]
  /\ UNCHANGED <<phase, args, pretrained_path, pretrained, norm_mean, model,
                 weights, err, heap, given, calls, lastCall>>

InitFilter ==
  /\ phase = "ready"
  /\ args = [constructor_name |-> "ResNet50", pretrained_path |-> None]
  /\ pretrained_path = None
  /\ pretrained = FALSE
  /\ norm_mean = <<>>
  /\ model = Truncate(FullModel(Constructor("ResNet50")))
  /\ weights = EmptyDict
  /\ err = "none"
  /\ heap = <<>>
  /\ given = <<>>
  /\ calls = <<>>
  /\ lastCall = NoCall
  /\ filt \in [pc : {"call"}, model_dict : StateDicts("init"),
               pretrained_dict : StateDicts("ckpt"), ret : {Raise("none")}]

NextFilter == FilterCall

SpecFilter == InitFilter /\ [][NextFilter]_vars

(* ------------------------------- claims --------------------------------- *)
Called == filt.pc = "done"
Returned == Called /\ filt.ret.err = "none"
MD == filt.model_dict
PD == filt.pretrained_dict
Out == filt.ret.dict

\* the condition of line 98: the checkpoint has the auxiliary weight, the model does not
AuxUnused == AuxW \in DOMAIN PD /\ AuxW \notin DOMAIN MD
\* the condition of line 105, where both classifier weights exist
ClassesDiffer ==
  /\ ClsW \in DOMAIN MD
  /\ ClsW \in DOMAIN PD
  /\ MD[ClsW].shape[1] # PD[ClsW].shape[1]

\* C1: whenever filter_pretrained_dict returns, every key of the returned
\* dictionary is a key of the model's dictionary with the same tensor shape.
C1_FilteredKeysMatchModel ==
  Returned =>
    \A k \in DOMAIN Out : k \in DOMAIN MD /\ MD[k].shape = Out[k].shape

\* C2: construction ends with NotImplementedError exactly when constructor_name
\* is neither "ResNet50" nor "ResNet101", whatever pretrained_path is.
C2_UnsupportedConstructor ==
  phase # "new" =>
    ((args.constructor_name \notin {"ResNet50", "ResNet101"}) <=> (err = Unsupported))

C2_Witness ==
  /\ phase = "failed"
  /\ args.constructor_name = "ResNet18"
  /\ args.pretrained_path # None
  /\ err = Unsupported

\* C3: when the checkpoint has the auxiliary weight key and the model lacks it,
\* the returned dictionary has no key containing "aux_classifier", and every
\* other checkpoint key is returned with its value, except the final
\* classifier weight and bias when the class counts differ.
C3_AuxDropped ==
  (Returned /\ AuxUnused) =>
    /\ \A k \in DOMAIN Out : ~Contains(k, AUX)
    /\ \A k \in DOMAIN PD :
         (~Contains(k, AUX) /\ ~(ClassesDiffer /\ k \in {ClsW, ClsB})) =>
           (k \in DOMAIN Out /\ Out[k] = PD[k])

C3_Witness ==
  /\ Returned
  /\ AuxUnused
  /\ AuxModuleW \in DOMAIN PD
  /\ Conv1W \in DOMAIN PD
  /\ ClassesDiffer
  /\ DOMAIN Out = {Conv1W}

\* the last part of C4: with equal class counts the classifier weight and bias
\* of the checkpoint are returned as they were
C4_EqualKept ==
  (Returned /\ ~ClassesDiffer) =>
    \A k \in {ClsW, ClsB} \cap DOMAIN PD : k \in DOMAIN Out /\ Out[k] = PD[k]

\* C4 as stated: when the class counts differ the returned dictionary is the
\* checkpoint without the final classifier weight and bias, every other entry
\* untouched; when they are equal both entries are kept.
C4_ExactlyClassifierRemoved ==
  /\ (Returned /\ ClassesDiffer) => Out = Restrict(PD, DOMAIN PD \ {ClsW, ClsB})
  /\ C4_EqualKept

\* C4 amended: when the class counts differ the returned dictionary is the
\* checkpoint without the final classifier weight and bias and, where the
\* checkpoint has the auxiliary weight key the model lacks, without the keys
\* containing "aux_classifier"; every other entry is untouched; when the counts
\* are equal both classifier entries are kept.
C4_ClassifierRemovedAfterAux ==
  /\ (Returned /\ ClassesDiffer) =>
       Out = Restrict(PD, {k \in DOMAIN PD :
                             /\ k \notin {ClsW, ClsB}
                             /\ ~(AuxUnused /\ Contains(k, AUX))})
  /\ C4_EqualKept

C4_Witness ==
  /\ Returned
  /\ ClassesDiffer
  /\ AuxUnused
  /\ Conv1W \in DOMAIN PD
  /\ ClsW \notin DOMAIN Out
  /\ ClsB \notin DOMAIN Out
  /\ Conv1W \in DOMAIN Out

\* C5: filter_pretrained_dict raises KeyError, and returns nothing, whenever the
\* final classifier weight is absent from either dictionary, or the class
\* counts differ and the checkpoint has no final classifier bias.
C5_MissingKeyRaises ==
  (Called /\ (\/ ClsW \notin DOMAIN MD
              \/ ClsW \notin DOMAIN PD
              \/ (ClassesDiffer /\ ClsB \notin DOMAIN PD))) =>
    filt.ret.err = "KeyError"

C5_Witness ==
  /\ Called
  /\ ClassesDiffer
  /\ ClsB \notin DOMAIN PD
  /\ filt.ret.err = "KeyError"

Forwarded == phase = "ready" /\ lastCall.images # 0

\* C6: with pretrained_path set, the tensor handed to the network is zero where
\* the input was not-a-number and equal to the input elsewhere.
C6_NanZeroed ==
  (Forwarded /\ pretrained) =>
    \A p \in DOMAIN lastCall.before :
      lastCall.fed[p] = IF lastCall.before[p] = NaN THEN Zero ELSE lastCall.before[p]

C6_Witness ==
  /\ Forwarded
  /\ pretrained
  /\ \E p \in DOMAIN lastCall.before : lastCall.before[p] = NaN
  /\ \E p \in DOMAIN lastCall.before : lastCall.before[p] = "1.0"

\* C7: without pretrained_path, the tensor handed to the network is the input
\* tensor itself with every position as the caller gave it.
C7_PassThrough ==
  (Forwarded /\ ~pretrained) =>
    /\ lastCall.x = lastCall.images
    /\ lastCall.fed = lastCall.before
    /\ heap = given

C7_Witness ==
  /\ Forwarded
  /\ ~pretrained
  /\ \E p \in DOMAIN lastCall.fed : lastCall.fed[p] = NaN

FiveStages ==
  << <<"backbone.", "conv1">>, <<"backbone.", "bn1">>, <<"backbone.", "relu">>,
     <<"backbone.", "maxpool">>, <<"backbone.", "layer1">> >>

\* C8: a successful construction holds exactly the five stages conv1, bn1,
\* relu, maxpool, layer1 of the backbone, in this order, and nothing else.
C8_FiveStages ==
  phase = "ready" =>
    /\ Len(model) = 5
    /\ model = FiveStages
    /\ args.constructor_name \in {"ResNet50", "ResNet101"}

C8_Witness ==
  /\ phase = "ready"
  /\ args.constructor_name = "ResNet101"
  /\ pretrained
  /\ \E k \in DOMAIN weights : weights[k].data = "ckpt"

\* C9: once the module is constructed no step changes pretrained_path,
\* pretrained, the normalisation constants, the network sequence or its weights.
C9_ForwardKeepsModule == [][phase = "ready" => self' = self]_vars

C9_Witness ==
  /\ Forwarded
  /\ pretrained
  /\ calls[lastCall.images] = MaxCalls
  /\ model = FiveStages

\* C10: with pretrained_path set, the tensor handed to the network is the
\* caller's tensor; after forward the caller's tensor holds zero wherever it was
\* given not-a-number, and a second forward on it finds no not-a-number.
C10_CallerTensorOverwritten ==
  (Forwarded /\ pretrained) =>
    /\ lastCall.x = lastCall.images
    /\ \A p \in DOMAIN given[lastCall.images] :
         given[lastCall.images][p] = NaN => heap[lastCall.images][p] = Zero
    /\ calls[lastCall.images] >= 2 =>
         \A p \in DOMAIN lastCall.mask : ~lastCall.mask[p]

C10_Witness ==
  /\ Forwarded
  /\ pretrained
  /\ calls[lastCall.images] >= 2
  /\ \E p \in DOMAIN given[lastCall.images] :
       given[lastCall.images][p] = NaN /\ heap[lastCall.images][p] = Zero

====
